---- MODULE Spec2Model ----
(***************************************************************************)
(* Session token manager of the Homefinder frontend: refreshToken() and    *)
(* the Google sign-in success handler, acting on the shared token store.   *)
(* One invocation of refreshToken() is one element of Invocations; the     *)
(* await on api.post splits it into a sending step and a settling step, so *)
(* that other handlers interleave while the renewal request is in flight.  *)
(***************************************************************************)
EXTENDS Naturals, FiniteSets

NumInvocations == 2

Invocations == 1..NumInvocations

\* Token values. None is undefined / a missing field; Empty is the empty
\* string, which is present but falsy in JavaScript.
None == "<undefined>"
Empty == ""
AccessTokens == {"a0", "a1"}
RefreshTokens == {"r0", "r1"}

NoRefreshErr == "No refresh token found"
RenewalFailedErr == "Token refresh failed"
TypeErr == "TypeError"
TransportErrors == {"HTTP 401", "HTTP 500", "timeout"}

VARIABLES store, pc, refresh, res, result, err, posts, inflight,
          loginStatus, preAccess, touched

\* State of ListPropertyPage and of the create mutation it uses.
VARIABLES mounted, isLoggedIn, formData, showPreview, isSubmitting,
          mutStatus, payload, createdSeen, snack

tokenVars == <<store, pc, refresh, res, result, err, posts, inflight,
               loginStatus, preAccess, touched>>

pageVars == <<mounted, isLoggedIn, formData, showPreview, isSubmitting,
              mutStatus, payload, createdSeen, snack>>

vars == <<tokenVars, pageVars>>

Truthy(v) == v # None /\ v # Empty

EmptyStore == [access |-> None, refresh |-> None]

----------------------------------------------------------------------------
\* authTokenStore

GetAccessToken(s) == s.access

GetRefreshToken(s) == s.refresh

ClearTokens == EmptyStore

\* setTokens({access, refresh}): the access token is stored, the refresh
\* token only when one is given.  What happens to the stored access token
\* when the access argument is undefined is not fixed anywhere, so both
\* outcomes (kept, removed) are possible.
SetTokens(s, t) ==
  { [access |-> a, refresh |-> IF t.refresh # None THEN t.refresh ELSE s.refresh] :
      a \in IF t.access # None THEN {t.access} ELSE {s.access, None} }

----------------------------------------------------------------------------
\* Answers of the renewal endpoint as api.post settles: a rejection with an
\* error, a success whose body is null, a success whose body is an object.
NoRes == [kind |-> "none", error |-> None, access |-> None, refresh |-> None]

ErrorResponses ==
  { [kind |-> "error", error |-> e, access |-> None, refresh |-> None] :
      e \in TransportErrors }

NullBodyResponse == [kind |-> "null", error |-> None, access |-> None, refresh |-> None]

DataResponses ==
  { [kind |-> "ok", error |-> None, access |-> a, refresh |-> r] :
      a \in {None, Empty} \cup AccessTokens, r \in {None, Empty} \cup RefreshTokens }

\* Bodies of the Google login endpoint: tokens?.access and tokens?.refresh.
LoginResponses ==
  { [access |-> a, refresh |-> r] :
      a \in {None} \cup AccessTokens, r \in {None} \cup RefreshTokens }

Request(p, r) == [caller |-> p, refresh |-> r]

\* A write of the store by q is seen by every other renewal in flight.
Touch(q) ==
  [p \in Invocations |-> IF p # q /\ pc[p] = "awaiting" THEN TRUE ELSE touched[p]]

\* A write of the store by a handler that is no renewal.
TouchAll ==
  [p \in Invocations |-> pc[p] = "awaiting" \/ touched[p]]

Settled(p, newpc, r, val, e) ==
  /\ pc' = [pc EXCEPT ![p] = newpc]
  /\ res' = [res EXCEPT ![p] = r]
  /\ result' = [result EXCEPT ![p] = val]
  /\ err' = [err EXCEPT ![p] = e]
  /\ refresh' = [refresh EXCEPT ![p] = None]
  /\ preAccess' = [preAccess EXCEPT ![p] = None]
  /\ touched' = [Touch(p) EXCEPT ![p] = FALSE]

----------------------------------------------------------------------------
\* ListPropertyPage

MaxImages == 2

Titles == {"", "Villa"}

Types == {"Buy", "Rent"}

FormValues == [title : Titles, type : Types, images : 0..MaxImages]

\* initialFormData
initialFormData == [title |-> "", type |-> "Buy", images |-> 0]

NoPayload == [title |-> "<none>", type |-> "<none>", images |-> 0]

\* The states of the page right after its first render.
PageInit ==
  /\ mounted = FALSE
  /\ isLoggedIn = FALSE
  /\ formData = initialFormData
  /\ showPreview = FALSE
  /\ isSubmitting = FALSE
  /\ mutStatus = "idle"
  /\ payload = NoPayload
  /\ createdSeen = FALSE
  /\ snack = "none"

----------------------------------------------------------------------------
Init ==
  /\ store \in {EmptyStore} \cup
               { [access |-> a, refresh |-> r] : a \in {"a0"}, r \in {"r0"} }
  /\ pc = [p \in Invocations |-> "idle"]
  /\ refresh = [p \in Invocations |-> None]
  /\ res = [p \in Invocations |-> NoRes]
  /\ result = [p \in Invocations |-> None]
  /\ err = [p \in Invocations |-> None]
  /\ posts = [p \in Invocations |-> 0]
  /\ inflight = {}
  /\ loginStatus = "idle"
  /\ preAccess = [p \in Invocations |-> None]
  /\ touched = [p \in Invocations |-> FALSE]
  /\ PageInit

\* Variant of RefreshNoToken: the request is sent although nothing is stored.
RefreshNoToken_Sends(p) ==
  /\ pc[p] = "idle"
  /\ ~Truthy(GetRefreshToken(store))
  /\ store' = ClearTokens
  /\ Settled(p, "threw", NoRes, None, NoRefreshErr)
  /\ inflight' = inflight \cup {Request(p, GetRefreshToken(store))}
  /\ posts' = [posts EXCEPT ![p] = @ + 1]
  /\ UNCHANGED loginStatus
  /\ UNCHANGED pageVars

\* refreshToken(), no refresh token stored: clearTokens(), throw.
RefreshNoToken(p) ==
  /\ pc[p] = "idle"
  /\ ~Truthy(GetRefreshToken(store))
  /\ store' = ClearTokens
  /\ Settled(p, "threw", NoRes, None, NoRefreshErr)
  /\ UNCHANGED <<posts, inflight, loginStatus>>
  /\ UNCHANGED pageVars

\* Variant of RefreshSend: a renewal already in flight is shared, the
\* second caller waits for it and sends nothing.
RefreshSend_Dedup(p) ==
  /\ pc[p] = "idle"
  /\ Truthy(GetRefreshToken(store))
  /\ pc' = [pc EXCEPT ![p] = "awaiting"]
  /\ refresh' = [refresh EXCEPT ![p] = GetRefreshToken(store)]
  /\ inflight' = IF inflight = {} THEN {Request(p, GetRefreshToken(store))} ELSE inflight
  /\ posts' = [posts EXCEPT ![p] = IF inflight = {} THEN @ + 1 ELSE @]
  /\ preAccess' = [preAccess EXCEPT ![p] = GetAccessToken(store)]
  /\ touched' = [touched EXCEPT ![p] = FALSE]
  /\ UNCHANGED <<store, res, result, err, loginStatus>>
  /\ UNCHANGED pageVars

\* Variant of RefreshSend: the expired access token is dropped from the
\* store before the request is sent.
RefreshSend_DropsAccess(p) ==
  /\ pc[p] = "idle"
  /\ Truthy(GetRefreshToken(store))
  /\ pc' = [pc EXCEPT ![p] = "awaiting"]
  /\ refresh' = [refresh EXCEPT ![p] = GetRefreshToken(store)]
  /\ inflight' = inflight \cup {Request(p, GetRefreshToken(store))}
  /\ posts' = [posts EXCEPT ![p] = @ + 1]
  /\ preAccess' = [preAccess EXCEPT ![p] = GetAccessToken(store)]
  /\ touched' = [touched EXCEPT ![p] = FALSE]
  /\ store' = [store EXCEPT !.access = None]
  /\ UNCHANGED <<res, result, err, loginStatus>>
  /\ UNCHANGED pageVars

\* refreshToken(), a refresh token is stored: api.post("/token/refresh/",
\* {refresh}) and suspend on the await.
RefreshSend(p) ==
  /\ pc[p] = "idle"
  /\ Truthy(GetRefreshToken(store))
  /\ pc' = [pc EXCEPT ![p] = "awaiting"]
  /\ refresh' = [refresh EXCEPT ![p] = GetRefreshToken(store)]
  /\ inflight' = inflight \cup {Request(p, GetRefreshToken(store))}
  /\ posts' = [posts EXCEPT ![p] = @ + 1]
  /\ preAccess' = [preAccess EXCEPT ![p] = GetAccessToken(store)]
  /\ touched' = [touched EXCEPT ![p] = FALSE]
  /\ UNCHANGED <<store, res, result, err, loginStatus>>
  /\ UNCHANGED pageVars

\* Variant of RenewalSucceeded: if (access && newRefresh)
RenewalSucceeded_NeedsBoth(r) == Truthy(r.access) /\ Truthy(r.refresh)

\* if (access)
RenewalSucceeded(r) == Truthy(r.access)

\* Variant of NewRefresh: the refresh token sent is stored back.
NewRefresh_KeepsOld(newRefresh, oldRefresh) == oldRefresh

\* newRefresh || refresh
NewRefresh(newRefresh, oldRefresh) ==
  IF Truthy(newRefresh) THEN newRefresh ELSE oldRefresh

\* The response carries an access token: setTokens, return access.
RefreshOk(p) ==
  /\ pc[p] = "awaiting"
  /\ Request(p, refresh[p]) \in inflight
  /\ \E r \in DataResponses :
       /\ RenewalSucceeded(r)
       /\ store' \in SetTokens(store,
              [access |-> r.access, refresh |-> NewRefresh(r.refresh, refresh[p])])
       /\ Settled(p, "returned", r, r.access, None)
  /\ inflight' = inflight \ {Request(p, refresh[p])}
  /\ UNCHANGED <<posts, loginStatus>>
  /\ UNCHANGED pageVars

\* Variant of RefreshNoAccess: the throw escapes the catch, nothing is
\* cleared.
RefreshNoAccess_KeepsTokens(p) ==
  /\ pc[p] = "awaiting"
  /\ Request(p, refresh[p]) \in inflight
  /\ \E r \in DataResponses :
       /\ ~RenewalSucceeded(r)
       /\ Settled(p, "threw", r, None, RenewalFailedErr)
  /\ inflight' = inflight \ {Request(p, refresh[p])}
  /\ UNCHANGED <<store, posts, loginStatus>>
  /\ UNCHANGED pageVars

\* The response carries no access token: throw inside the try, caught,
\* clearTokens(), rethrown.
RefreshNoAccess(p) ==
  /\ pc[p] = "awaiting"
  /\ Request(p, refresh[p]) \in inflight
  /\ \E r \in DataResponses :
       /\ ~RenewalSucceeded(r)
       /\ Settled(p, "threw", r, None, RenewalFailedErr)
  /\ store' = ClearTokens
  /\ inflight' = inflight \ {Request(p, refresh[p])}
  /\ UNCHANGED <<posts, loginStatus>>
  /\ UNCHANGED pageVars

\* res.data is null: the destructuring throws a TypeError inside the try.
RefreshNullBody(p) ==
  /\ pc[p] = "awaiting"
  /\ Request(p, refresh[p]) \in inflight
  /\ Settled(p, "threw", NullBodyResponse, None, TypeErr)
  /\ store' = ClearTokens
  /\ inflight' = inflight \ {Request(p, refresh[p])}
  /\ UNCHANGED <<posts, loginStatus>>
  /\ UNCHANGED pageVars

\* Variant of RefreshFail: only the access token is removed.
RefreshFail_KeepsRefresh(p) ==
  /\ pc[p] = "awaiting"
  /\ Request(p, refresh[p]) \in inflight
  /\ \E r \in ErrorResponses :
       Settled(p, "threw", r, None, r.error)
  /\ store' = [store EXCEPT !.access = None]
  /\ inflight' = inflight \ {Request(p, refresh[p])}
  /\ UNCHANGED <<posts, loginStatus>>
  /\ UNCHANGED pageVars

\* Variant of RefreshFail: the first failure is answered by sending the
\* renewal again.
RefreshFail_Retries(p) ==
  /\ pc[p] = "awaiting"
  /\ Request(p, refresh[p]) \in inflight
  /\ IF posts[p] < 2
       THEN /\ posts' = [posts EXCEPT ![p] = @ + 1]
            /\ touched' = Touch(p)
            /\ store' = ClearTokens
            /\ UNCHANGED <<pc, refresh, res, result, err, inflight, preAccess>>
       ELSE /\ \E r \in ErrorResponses :
                 Settled(p, "threw", r, None, r.error)
            /\ store' = ClearTokens
            /\ inflight' = inflight \ {Request(p, refresh[p])}
            /\ UNCHANGED posts
  /\ UNCHANGED loginStatus
  /\ UNCHANGED pageVars

\* api.post rejects: catch (err) { clearTokens(); throw err; }
RefreshFail(p) ==
  /\ pc[p] = "awaiting"
  /\ Request(p, refresh[p]) \in inflight
  /\ \E r \in ErrorResponses :
       Settled(p, "threw", r, None, r.error)
  /\ store' = ClearTokens
  /\ inflight' = inflight \ {Request(p, refresh[p])}
  /\ UNCHANGED <<posts, loginStatus>>
  /\ UNCHANGED pageVars

\* The Google button (disabled while isLoading): mutate({access_token}).
LoginStart ==
  /\ loginStatus # "loading"
  /\ loginStatus' = "loading"
  /\ UNCHANGED <<store, pc, refresh, res, result, err, posts, inflight,
                 preAccess, touched>>
  /\ UNCHANGED pageVars

\* loginAPI resolves and onSuccess runs setTokens on what it returned.
LoginSuccess ==
  /\ loginStatus = "loading"
  /\ \E t \in LoginResponses :
       store' \in SetTokens(store, [access |-> t.access, refresh |-> t.refresh])
  /\ loginStatus' = "success"
  /\ touched' = TouchAll
  /\ UNCHANGED <<pc, refresh, res, result, err, posts, inflight, preAccess>>
  /\ UNCHANGED pageVars

\* loginAPI rejects: onError only reports; the mutation is left in error.
LoginError ==
  /\ loginStatus = "loading"
  /\ loginStatus' = "error"
  /\ UNCHANGED <<store, pc, refresh, res, result, err, posts, inflight,
                 preAccess, touched>>
  /\ UNCHANGED pageVars

\* Explicit logout: clearTokens().
Logout ==
  /\ store' = ClearTokens
  /\ touched' = TouchAll
  /\ UNCHANGED <<pc, refresh, res, result, err, posts, inflight,
                 loginStatus, preAccess>>
  /\ UNCHANGED pageVars

Next ==
  \/ \E p \in Invocations : RefreshNoToken(p)
  \/ \E p \in Invocations : RefreshSend(p)
  \/ \E p \in Invocations : RefreshOk(p)
  \/ \E p \in Invocations : RefreshNoAccess(p)
  \/ \E p \in Invocations : RefreshNullBody(p)
  \/ \E p \in Invocations : RefreshFail(p)
  \/ LoginStart
  \/ LoginSuccess
  \/ LoginError
  \/ Logout

Spec == Init /\ [][Next]_vars

----------------------------------------------------------------------------
\* useCreateProperty: isCreating, isCreated, isCreateError
isCreating == mutStatus = "loading"

isCreated == mutStatus = "success"

isCreateError == mutStatus = "error"

\* What ListPropertyPage renders.
LoginPromptShown == ~isLoggedIn

LoaderShown == isLoggedIn /\ (isCreating \/ isSubmitting)

PageShown == isLoggedIn /\ ~LoaderShown

SuccessModalShown == PageShown /\ isCreated

ErrorAlertShown == PageShown /\ isCreateError

\* The overlay of SuccessModal covers the page: the form and its buttons
\* are reachable only without it.
FormUsable == PageShown /\ ~SuccessModalShown

\* The isCreated effect has not yet run for the value isCreated has now.
\* Effects of a render are flushed before the next update is processed.
EffectDue == createdSeen # isCreated

\* useEffect(..., []): setIsLoggedIn(!!getAccessToken())
Mount ==
  /\ ~mounted
  /\ mounted' = TRUE
  /\ isLoggedIn' = Truthy(GetAccessToken(store))
  /\ UNCHANGED <<formData, showPreview, isSubmitting, mutStatus, payload,
                 createdSeen, snack>>
  /\ UNCHANGED tokenVars

\* The sections of the form: setFormData
EditForm ==
  /\ mounted /\ ~EffectDue
  /\ FormUsable /\ ~showPreview
  /\ \E f \in FormValues : f # formData /\ formData' = f
  /\ UNCHANGED <<mounted, isLoggedIn, showPreview, isSubmitting, mutStatus,
                 payload, createdSeen, snack>>
  /\ UNCHANGED tokenVars

\* SubmitButtons.onPreview: setShowPreview(true)
OpenPreview ==
  /\ mounted /\ ~EffectDue
  /\ FormUsable /\ ~showPreview
  /\ showPreview' = TRUE
  /\ UNCHANGED <<mounted, isLoggedIn, formData, isSubmitting, mutStatus,
                 payload, createdSeen, snack>>
  /\ UNCHANGED tokenVars

\* PreviewPage.onEdit: setShowPreview(false)
ClosePreview ==
  /\ mounted /\ ~EffectDue
  /\ FormUsable /\ showPreview
  /\ showPreview' = FALSE
  /\ UNCHANGED <<mounted, isLoggedIn, formData, isSubmitting, mutStatus,
                 payload, createdSeen, snack>>
  /\ UNCHANGED tokenVars

\* handleSubmit: setIsSubmitting(true), createProperty(formPayload)
handleSubmit ==
  /\ mounted /\ ~EffectDue
  /\ FormUsable
  /\ isSubmitting' = TRUE
  /\ payload' = formData
  /\ mutStatus' = "loading"
  /\ UNCHANGED <<mounted, isLoggedIn, formData, showPreview, createdSeen, snack>>
  /\ UNCHANGED tokenVars

\* createPropertyAPI resolves: onSuccess
CreateSuccess ==
  /\ ~EffectDue
  /\ mutStatus = "loading"
  /\ mutStatus' = "success"
  /\ snack' = "success"
  /\ UNCHANGED <<mounted, isLoggedIn, formData, showPreview, isSubmitting,
                 payload, createdSeen>>
  /\ UNCHANGED tokenVars

\* createPropertyAPI rethrows the error of api.post: onError
CreateError ==
  /\ ~EffectDue
  /\ mutStatus = "loading"
  /\ mutStatus' = "error"
  /\ snack' = "error"
  /\ UNCHANGED <<mounted, isLoggedIn, formData, showPreview, isSubmitting,
                 payload, createdSeen>>
  /\ UNCHANGED tokenVars

\* useEffect(..., [isCreated, initialFormData])
CreatedEffect ==
  /\ EffectDue
  /\ createdSeen' = isCreated
  /\ IF isCreated
       THEN /\ formData' = initialFormData
            /\ showPreview' = FALSE
            /\ isSubmitting' = FALSE
       ELSE UNCHANGED <<formData, showPreview, isSubmitting>>
  /\ UNCHANGED <<mounted, isLoggedIn, mutStatus, payload, snack>>
  /\ UNCHANGED tokenVars

\* SuccessModal.onClose: resetCreate()
CloseModal ==
  /\ ~EffectDue
  /\ SuccessModalShown
  /\ mutStatus' = "idle"
  /\ payload' = NoPayload
  /\ UNCHANGED <<mounted, isLoggedIn, formData, showPreview, isSubmitting,
                 createdSeen, snack>>
  /\ UNCHANGED tokenVars

PageNext ==
  \/ Mount
  \/ EditForm
  \/ OpenPreview
  \/ ClosePreview
  \/ handleSubmit
  \/ CreateSuccess
  \/ CreateError
  \/ CreatedEffect
  \/ CloseModal

PageSpec == Init /\ [][PageNext]_vars

----------------------------------------------------------------------------
\* Steps of invocation p.
Settles(p) == pc[p] = "awaiting" /\ pc'[p] # "awaiting"

Starts(p) == pc[p] = "idle" /\ pc'[p] # "idle"

Done(p) == pc[p] \in {"returned", "threw"}

\* C1: when the renewal request ends in a transport or server error, the
\* store holds neither token once refreshToken() has failed, whatever it
\* held before, and the error thrown is the error of the request.
C1_FailedRenewalClears ==
  [][\A p \in Invocations :
       (Settles(p) /\ res'[p].kind = "error") =>
         /\ pc'[p] = "threw"
         /\ GetAccessToken(store') = None
         /\ GetRefreshToken(store') = None
         /\ err'[p] = res'[p].error
         /\ err'[p] \in TransportErrors]_vars

C1_Witness ==
  \E p \in Invocations :
    /\ pc[p] = "threw"
    /\ res[p].kind = "error"
    /\ err[p] = "HTTP 401"
    /\ store = EmptyStore

\* C2: refreshToken() called with no refresh token stored, with or without
\* an access token stored, clears the store, throws the absent-credential
\* error and sends no request.
C2_NoRefreshTokenFailsClosed ==
  [][\A p \in Invocations :
       (Starts(p) /\ GetRefreshToken(store) = None) =>
         /\ pc'[p] = "threw"
         /\ err'[p] = NoRefreshErr
         /\ store' = EmptyStore
         /\ posts'[p] = 0
         /\ inflight' = inflight]_vars

C2_Witness ==
  \E p \in Invocations :
    /\ pc[p] = "threw"
    /\ err[p] = NoRefreshErr
    /\ posts[p] = 0
    /\ store = EmptyStore

\* C3: with the pair (a0, r0) stored and nothing else writing the store
\* during the call, a renewal answered {access: a1} without a refresh field
\* leaves (a1, r0) in the store and returns a1.
C3_RenewalWithoutRotation ==
  [][\A p \in Invocations :
       (/\ Settles(p)
        /\ ~touched[p]
        /\ res'[p].kind = "ok"
        /\ res'[p].access \in AccessTokens
        /\ res'[p].refresh = None) =>
         /\ pc'[p] = "returned"
         /\ result'[p] = res'[p].access
         /\ store' = [access |-> res'[p].access, refresh |-> store.refresh]
         /\ store.refresh = refresh[p]]_vars

C3_Witness ==
  \E p \in Invocations :
    /\ pc[p] = "returned"
    /\ res[p].refresh = None
    /\ result[p] = "a1"
    /\ store = [access |-> "a1", refresh |-> "r0"]
    /\ loginStatus = "idle"
    /\ \A q \in Invocations : q # p => pc[q] = "idle"

\* C4: a renewal answered {access: a1, refresh: r1} leaves (a1, r1) in the
\* store, whatever pair was stored.
C4_RenewalWithRotation ==
  [][\A p \in Invocations :
       (/\ Settles(p)
        /\ res'[p].kind = "ok"
        /\ res'[p].access \in AccessTokens
        /\ res'[p].refresh \in RefreshTokens) =>
         /\ pc'[p] = "returned"
         /\ store' = [access |-> res'[p].access, refresh |-> res'[p].refresh]]_vars

C4_Witness ==
  \E p \in Invocations :
    /\ pc[p] = "returned"
    /\ res[p].access = "a1"
    /\ res[p].refresh = "r1"
    /\ store = [access |-> "a1", refresh |-> "r1"]

\* C5: a successful answer whose body carries no access token, with or
\* without a refresh field, stores nothing of it: both tokens are cleared
\* and refreshToken() throws the renewal-failed error.
C5_NoAccessInResponseFails ==
  [][\A p \in Invocations :
       (/\ Settles(p)
        /\ res'[p].kind = "ok"
        /\ res'[p].access = None) =>
         /\ pc'[p] = "threw"
         /\ err'[p] = RenewalFailedErr
         /\ store' = EmptyStore]_vars

C5_Witness ==
  \E p \in Invocations :
    /\ pc[p] = "threw"
    /\ res[p].kind = "ok"
    /\ res[p].access = None
    /\ res[p].refresh = "r1"
    /\ err[p] = RenewalFailedErr
    /\ store = EmptyStore

\* C6: in every reachable state the store holds both an access and a
\* refresh token or neither of them.
C6_BothOrNeither ==
  (GetAccessToken(store) = None) <=> (GetRefreshToken(store) = None)

\* C7: an invocation of refreshToken() sends at most one renewal request,
\* and none is left or sent again once it has failed.
C7_AtMostOneRequest ==
  \A p \in Invocations :
    /\ posts[p] <= 1
    /\ Done(p) => \A m \in inflight : m.caller # p

C7_Witness ==
  \E p \in Invocations :
    /\ pc[p] = "threw"
    /\ res[p].kind = "error"
    /\ posts[p] = 1

\* C8: a renewal that succeeds without a new refresh token leaves in the
\* store the refresh token that was there just before the response was
\* processed, also when it was replaced while the request was in flight.
C8_KeepsStoredRefresh ==
  [][\A p \in Invocations :
       (/\ Settles(p)
        /\ pc'[p] = "returned"
        /\ res'[p].refresh = None
        /\ GetRefreshToken(store) # None) =>
         GetRefreshToken(store') = GetRefreshToken(store)]_vars

\* C9: every invocation that found a refresh token has sent a request of
\* its own, whatever other renewals are in flight.
C9_NoDeduplication ==
  \A p \in Invocations :
    pc[p] = "awaiting" =>
      /\ posts[p] = 1
      /\ Request(p, refresh[p]) \in inflight
      /\ Cardinality({m \in inflight : m.caller = p}) = 1

C9_Witness ==
  /\ \A p \in Invocations : pc[p] = "awaiting"
  /\ Cardinality(inflight) >= 2

\* C10: while the renewal of an invocation is in flight and nothing else
\* has written the store, the store still holds the access and the refresh
\* token it held when refreshToken() was called.
C10_StaleWhileInFlight ==
  \A p \in Invocations :
    (pc[p] = "awaiting" /\ ~touched[p]) =>
      /\ GetAccessToken(store) = preAccess[p]
      /\ GetRefreshToken(store) = refresh[p]

C10_Witness ==
  \E p \in Invocations :
    /\ pc[p] = "awaiting"
    /\ ~touched[p]
    /\ GetAccessToken(store) = "a0"
    /\ GetRefreshToken(store) = "r0"

\* C11: after handleSubmit, once the create mutation has settled and the
\* effects of that render have run, the page no longer renders the
\* full-screen loader: after a success the form is reset and the success
\* modal is shown, after an error the page with the error alert is shown.
C11_LoaderStopsAfterSettle ==
  (~EffectDue /\ payload # NoPayload) =>
    /\ isCreated => (~LoaderShown /\ SuccessModalShown /\ formData = initialFormData)
    /\ isCreateError => (~LoaderShown /\ PageShown /\ ErrorAlertShown)
====
